---- MODULE Spec2Model ----
(***************************************************************************)
(* A model of src/src/enigma.py: the Plugboard layer (its `front` setter,   *)
(* the derived `back` dictionary and its __call__) and the Enigma machine   *)
(* that forwards a character through its layers in the configured order.    *)
(*                                                                         *)
(* Python values are modelled as follows.  A character is a TLA+ string of  *)
(* one letter; Python's None, where a character is expected, is the string  *)
(* "None"; a str is a sequence of characters; a dict is a function from its *)
(* keys to its values.  An argument whose Python type the code inspects is  *)
(* a record [type, v] carrying the name of its type.                        *)
(***************************************************************************)
EXTENDS Integers, Sequences, FiniteSets, TLC

VARIABLES plugboards, machines, last

vars == <<plugboards, machines, last>>

(***************************************************************************)
(* The alphabet.  string.ascii_lowercase has 26 letters; the model keeps    *)
(* its first AlphaLen letters.                                              *)
(***************************************************************************)
AlphaLen == 3

Letters == <<"a", "b", "c", "d", "e", "f", "g", "h">>

ascii_lowercase == SubSeq(Letters, 1, AlphaLen)

Alphabet == {ascii_lowercase[i] : i \in 1..AlphaLen}

None == "None"

True == "True"

False == "False"

NoError == "ok"

Range(f) == {f[k] : k \in DOMAIN f}

(***************************************************************************)
(* Plugboard._std_front.  The source's 26-letter default swaps "a" with "z" *)
(* (and nine more pairs) and leaves six letters fixed; the model's default  *)
(* swaps the first letter with the last and fixes the letters between.      *)
(***************************************************************************)
std_front ==
    [i \in 1..AlphaLen |->
        IF i = 1 THEN ascii_lowercase[AlphaLen]
        ELSE IF i = AlphaLen THEN ascii_lowercase[1]
        ELSE ascii_lowercase[i]]

(***************************************************************************)
(* Tagged Python values handed to the `front` setter.                       *)
(***************************************************************************)
PyNone == [type |-> "NoneType", v |-> <<>>]

PyStr(s) == [type |-> "str", v |-> s]

PyDict(d) == [type |-> "dict", v |-> d]

PyInt == [type |-> "int", v |-> <<>>]

(* dict(zip(ks, vs)): pairs up to the shorter length, a later pair wins. *)
dict_zip(ks, vs) ==
    LET n == IF Len(ks) < Len(vs) THEN Len(ks) ELSE Len(vs)
        last_at(k) == CHOOSE i \in 1..n :
                          /\ ks[i] = k
                          /\ \A j \in 1..n : ks[j] = k => j <= i
    IN [k \in {ks[i] : i \in 1..n} |-> vs[last_at(k)]]

(* d.get(k): the value at k, None for a missing key. *)
dict_get(d, k) == IF k \in DOMAIN d THEN d[k] ELSE None

(***************************************************************************)
(* Line 123: self._back = dict(zip(value.values(), value.keys())).  The     *)
(* line is reached only past the checks of lines 106-114, where every value *)
(* has exactly one key, so the iteration order of the dict does not matter. *)
(***************************************************************************)
back_unswapped(value) == value

back_of(value) ==
    [x \in Range(value) |-> CHOOSE k \in DOMAIN value : value[k] = x]

(***************************************************************************)
(* A Plugboard object: _front and _back, and whether its construction has   *)
(* completed.  An object whose constructor has not returned does not exist  *)
(* for any caller.                                                          *)
(***************************************************************************)
NoPlugboard == [alive |-> FALSE, front |-> <<>>, back |-> <<>>]

(* Lines 95-96: None stands for the default string. *)
with_default(value) ==
    IF value.type = "NoneType" THEN PyStr(std_front) ELSE value

(* Lines 98-101: a string of the wrong length raises ValueError. *)
str_len_error(value) ==
    /\ value.type = "str"
    /\ Len(value.v) # Len(ascii_lowercase)

(* Line 103: a string becomes the dict that pairs the alphabet with it. *)
as_dict(value) ==
    IF value.type = "str"
    THEN PyDict(dict_zip(ascii_lowercase, value.v))
    ELSE value

(* Lines 105-108: a dict without 26 keys raises ValueError. *)
dict_len_error(value) ==
    /\ value.type = "dict"
    /\ Cardinality(DOMAIN value.v) # Len(ascii_lowercase)

(* Lines 110-114: keys or values that are not the alphabet raise ValueError. *)
dict_keys_error(value) ==
    /\ value.type = "dict"
    /\ DOMAIN value.v # Alphabet

dict_chars_error(value) ==
    /\ value.type = "dict"
    /\ \/ DOMAIN value.v # Alphabet
       \/ Range(value.v) # Alphabet

(* Lines 116-119: anything that is not a dict by now raises TypeError. *)
type_error(value) == value.type # "dict"

(* Lines 121-123: the assignments to _front and _back. *)
stored(d) == [alive |-> TRUE, front |-> d, back |-> back_of(d)]

Outcome(self, raised) == [self |-> self, raised |-> raised]

(***************************************************************************)
(* Plugboard.front (setter), lines 76-123.  Returns the object after the    *)
(* call and the exception raised, if any.                                   *)
(***************************************************************************)
front_setter_no_len_check(self, value) ==
    LET v1 == with_default(value)
        v2 == as_dict(v1)
    IN  IF dict_len_error(v2) THEN Outcome(self, "ValueError")
        ELSE IF dict_chars_error(v2) THEN Outcome(self, "ValueError")
        ELSE IF type_error(v2) THEN Outcome(self, "TypeError")
        ELSE Outcome(stored(v2.v), NoError)

front_setter_keys_only(self, value) ==
    LET v1 == with_default(value)
        v2 == as_dict(v1)
    IN  IF str_len_error(v1) THEN Outcome(self, "ValueError")
        ELSE IF dict_len_error(v2) THEN Outcome(self, "ValueError")
        ELSE IF dict_keys_error(v2) THEN Outcome(self, "ValueError")
        ELSE IF type_error(v2) THEN Outcome(self, "TypeError")
        ELSE Outcome(stored(v2.v), NoError)

front_setter_store_first(self, value) ==
    LET v1 == with_default(value)
        v2 == as_dict(v1)
    IN  IF str_len_error(v1) THEN Outcome(self, "ValueError")
        ELSE IF dict_len_error(v2) THEN Outcome(self, "ValueError")
        ELSE IF dict_chars_error(v2) THEN Outcome(stored(v2.v), "ValueError")
        ELSE IF type_error(v2) THEN Outcome(self, "TypeError")
        ELSE Outcome(stored(v2.v), NoError)

front_setter(self, value) ==
    LET v1 == with_default(value)
        v2 == as_dict(v1)
    IN  IF str_len_error(v1) THEN Outcome(self, "ValueError")
        ELSE IF dict_len_error(v2) THEN Outcome(self, "ValueError")
        ELSE IF dict_chars_error(v2) THEN Outcome(self, "ValueError")
        ELSE IF type_error(v2) THEN Outcome(self, "TypeError")
        ELSE Outcome(stored(v2.v), NoError)

(***************************************************************************)
(* Plugboard.__init__, lines 55-63: _front and _back start as None and the  *)
(* setter runs; when it raises, the constructor raises and no object is     *)
(* returned.                                                                *)
(***************************************************************************)
Plugboard_init(plugboard) ==
    LET r == front_setter(NoPlugboard, plugboard)
    IN  IF r.raised = NoError THEN r ELSE Outcome(NoPlugboard, r.raised)

(***************************************************************************)
(* Plugboard.__call__, lines 135-151.                                       *)
(***************************************************************************)
Plugboard_call(self, value, reverse) ==
    LET rev == IF reverse = None THEN False ELSE reverse
    IN  IF rev = True
        THEN dict_get(self.back, value)
        ELSE dict_get(self.front, value)

(***************************************************************************)
(* The Enigma machine.  A machine holds references to its layers: `layers`  *)
(* is a tuple of names of Plugboard objects, and `plugboards` is the heap   *)
(* those names point into.  "std" is the Plugboard built once, when the     *)
(* class body runs, for Enigma._std_layers (line 165).                      *)
(***************************************************************************)
Objs == {"std", "p", "q"}

CallerObjs == {"p", "q"}

Machines == {"A", "B"}

PyTuple(t) == [type |-> "tuple", v |-> t]

NoMachine == [alive |-> FALSE, layers |-> <<>>, order |-> <<>>]

(* Enigma._std_layers, line 165, and Enigma._std_order, line 166. *)
std_layers == <<"std">>

std_order == << <<0, True>> >>

(* Python's `x or default` for an optional tuple: None and () are falsy. *)
or_default(x, default) ==
    IF x.type = "NoneType" \/ Len(x.v) = 0 THEN default ELSE x.v

(* Enigma.__init__, lines 168-176. *)
Enigma_init(layers, order) ==
    [alive |-> TRUE,
     layers |-> or_default(layers, std_layers),
     order |-> or_default(order, std_order)]

(***************************************************************************)
(* Enigma.__call__, lines 198-211: the value is passed through the layers   *)
(* named by `order`, entry by entry; nothing is assigned.  `heap` is the    *)
(* state of the Plugboard objects at the time of the call.                  *)
(***************************************************************************)
RECURSIVE forward(_, _, _, _)

forward(self, heap, value, k) ==
    IF k > Len(self.order) THEN value
    ELSE LET i == self.order[k][1]
             r == self.order[k][2]
         IN  forward(self, heap,
                     Plugboard_call(heap[self.layers[i + 1]], value, r),
                     k + 1)

Enigma_call(self, heap, value) == forward(self, heap, value, 1)

(***************************************************************************)
(* Inputs.                                                                  *)
(***************************************************************************)
Digit == "1"

Upper == "A"

Strings(S, n) == [1..n -> S]

PermStrings == {s \in Strings(Alphabet, AlphaLen) : Range(s) = Alphabet}

TooLong == {Append(s, c) : s \in PermStrings, c \in Alphabet}

(* A permutation string with the digit in place of one of its letters. *)
WithDigit ==
    {[s EXCEPT ![i] = Digit] : s \in PermStrings, i \in 1..AlphaLen}

(* Strings one letter short, of the right length, and one letter long. *)
StrInputs ==
    Strings(Alphabet, AlphaLen - 1) \cup Strings(Alphabet, AlphaLen)
        \cup WithDigit \cup TooLong

(* Key sequences: the alphabet, the alphabet with a digit for its last      *)
(* letter, the alphabet without its last letter, the alphabet and a digit.  *)
KeyInputs ==
    {ascii_lowercase,
     Append(SubSeq(ascii_lowercase, 1, AlphaLen - 1), Digit),
     SubSeq(ascii_lowercase, 1, AlphaLen - 1),
     Append(ascii_lowercase, Digit)}

ValInputs(ks) ==
    IF Len(ks) = AlphaLen + 1 THEN TooLong
    ELSE IF ks = ascii_lowercase THEN Strings(Alphabet, AlphaLen) \cup WithDigit
    ELSE IF Len(ks) = AlphaLen THEN PermStrings
    ELSE Strings(Alphabet, Len(ks))

DictInputs ==
    UNION {{dict_zip(ks, vs) : vs \in ValInputs(ks)} : ks \in KeyInputs}

FrontValues ==
    {PyNone, PyInt} \cup {PyStr(s) : s \in StrInputs}
                    \cup {PyDict(d) : d \in DictInputs}

CallValues == Alphabet \cup {Digit, Upper}

ReverseValues == {True, False, None}

(***************************************************************************)
(* State.  `last` records the latest call: the operation, the object it was *)
(* made on, its argument (for a mapping, the name of its Python type), what  *)
(* it returned and what it raised.                                          *)
(***************************************************************************)
Call(op, obj, arg, reverse, out, raised) ==
    [op |-> op, obj |-> obj, arg |-> arg, reverse |-> reverse,
     out |-> out, raised |-> raised]

Init ==
    /\ plugboards = [o \in Objs |->
                        IF o = "std" THEN Plugboard_init(PyNone).self
                        ELSE NoPlugboard]
    /\ machines = [m \in Machines |-> NoMachine]
    /\ last = Call("import", "-", "-", "-", None, NoError)

(* o = Plugboard(value) *)
NewPlugboard(o, value) ==
    /\ ~plugboards[o].alive
    /\ LET r == Plugboard_init(value)
       IN  /\ plugboards' = [plugboards EXCEPT ![o] = r.self]
           /\ last' = Call("Plugboard", o, value.type, "-", None, r.raised)
    /\ UNCHANGED machines

(* o.front = value *)
SetFront(o, value) ==
    /\ plugboards[o].alive
    /\ LET r == front_setter(plugboards[o], value)
       IN  /\ plugboards' = [plugboards EXCEPT ![o] = r.self]
           /\ last' = Call("front", o, value.type, "-", None, r.raised)
    /\ UNCHANGED machines

(* o(value, reverse) *)
CallPlugboard(o, value, reverse) ==
    /\ plugboards[o].alive
    /\ last' = Call("call", o, value, reverse,
                    Plugboard_call(plugboards[o], value, reverse), NoError)
    /\ UNCHANGED <<plugboards, machines>>

(* One Plugboard, "p", with every input of FrontValues. *)
Next ==
    \/ \E v \in FrontValues : NewPlugboard("p", v)
    \/ \E v \in FrontValues : SetFront("p", v)
    \/ \E c \in CallValues, r \in ReverseValues : CallPlugboard("p", c, r)

Spec == Init /\ [][Next]_vars

(***************************************************************************)
(* The machine-level specification: two machines, "A" and "B", the shared   *)
(* default Plugboard and two Plugboards of the caller's.  The mappings      *)
(* assigned here are the default, a rotation of the alphabet (a bijection   *)
(* that is not its own inverse) and a string one letter short.              *)
(***************************************************************************)
Rotated == [i \in 1..AlphaLen |-> ascii_lowercase[(i % AlphaLen) + 1]]

MachineFrontValues ==
    {PyNone, PyStr(Rotated), PyStr(SubSeq(ascii_lowercase, 1, AlphaLen - 1))}

(* The caller's Plugboards that no other machine was given. *)
Free(m) ==
    {o \in CallerObjs :
        /\ plugboards[o].alive
        /\ \A m2 \in Machines \ {m} : o \notin Range(machines[m2].layers)}

LayerChoices(m) ==
    {PyNone, PyTuple(<<>>)}
        \cup {PyTuple(t) : t \in Strings(Free(m), 1) \cup Strings(Free(m), 2)}

(* Orders over n layers; every index is in range. *)
OrderChoices(n) ==
    {PyNone,
     PyTuple(<< <<0, False>> >>),
     PyTuple(<< <<0, True>> >>),
     PyTuple(<< <<n - 1, False>>, <<0, False>> >>)}

(* m = Enigma(layers, order) *)
NewEnigma(m, layers, order) ==
    /\ ~machines[m].alive
    /\ machines' = [machines EXCEPT ![m] = Enigma_init(layers, order)]
    /\ last' = Call("Enigma", m, "-", "-", None, NoError)
    /\ UNCHANGED plugboards

(* m(value) *)
Encrypt(m, value) ==
    /\ machines[m].alive
    /\ last' = Call("encrypt", m, value, "-",
                    Enigma_call(machines[m], plugboards, value), NoError)
    /\ UNCHANGED <<plugboards, machines>>

NextEnigma ==
    \/ \E o \in CallerObjs, v \in MachineFrontValues : NewPlugboard(o, v)
    \/ \E o \in Objs, v \in MachineFrontValues : SetFront(o, v)
    \/ \E m \in Machines : \E layers \in LayerChoices(m) :
          \E order \in OrderChoices(Len(or_default(layers, std_layers))) :
              NewEnigma(m, layers, order)
    \/ \E m \in Machines, c \in CallValues : Encrypt(m, c)

SpecEnigma == Init /\ [][NextEnigma]_vars

(***************************************************************************)
(* Vocabulary of the properties.                                            *)
(***************************************************************************)
SetterOps == {"Plugboard", "front"}

(* The mapping a value denotes pairs every letter with exactly one letter. *)
IsAlphabetBijection(value) ==
    CASE value.type = "NoneType" -> TRUE
      [] value.type = "str" ->
            /\ Len(value.v) = AlphaLen
            /\ \A c \in Alphabet :
                  Cardinality({i \in 1..Len(value.v) : value.v[i] = c}) = 1
      [] value.type = "dict" ->
            /\ \A k \in DOMAIN value.v : k \in Alphabet
            /\ \A c \in Alphabet :
                  /\ c \in DOMAIN value.v
                  /\ Cardinality({k \in DOMAIN value.v : value.v[k] = c}) = 1
      [] OTHER -> FALSE

(* What `Plugboard(value)` or `o.front = value` does in the current state. *)
Attempt(o, value) ==
    IF plugboards[o].alive
    THEN front_setter(plugboards[o], value)
    ELSE Plugboard_init(value)

(* C2: after P(s, reverse=False) returned for a letter s on an accepted     *)
(* plugboard P, P(that result, reverse=True) is s again.                    *)
C2_PlugboardRoundTrip ==
    (last.op = "call" /\ last.arg \in Alphabet /\ last.reverse = False)
        => Plugboard_call(plugboards[last.obj], last.out, True) = last.arg

(* A forward call on a plugboard that is not its own inverse. *)
C2_Witness ==
    /\ last.op = "call"
    /\ last.arg \in Alphabet
    /\ last.reverse = False
    /\ last.out # last.arg
    /\ plugboards[last.obj].front[last.out] # last.arg

(* C3, as stated: a string or dictionary that is rejected is rejected with  *)
(* ConfigurationError.                                                      *)
C3_RejectedWithConfigurationError ==
    (last.op \in SetterOps /\ last.arg \in {"str", "dict"}
        /\ last.raised # NoError)
        => last.raised = "ConfigurationError"

(* C3, amended: a string or dictionary is accepted exactly when it is a     *)
(* bijection over the alphabet; any other string or dictionary (wrong       *)
(* length, repeated letter, keys or values not covering the alphabet) is    *)
(* rejected with ValueError.                                                *)
C3_OnlyBijectionsAccepted ==
    /\ \A o \in Objs : \A value \in FrontValues :
          value.type \in {"str", "dict"} =>
              Attempt(o, value).raised =
                  IF IsAlphabetBijection(value) THEN NoError ELSE "ValueError"
    /\ (last.op \in SetterOps /\ last.arg \in {"str", "dict"})
          => last.raised \in {NoError, "ValueError"}

(* A construction from a string was rejected. *)
C3_Witness ==
    /\ last.op = "Plugboard"
    /\ last.arg = "str"
    /\ last.raised = "ValueError"
    /\ ~plugboards[last.obj].alive

(* C4: every mapping that construction or assignment accepted is its own    *)
(* inverse: front[front[s]] = s for every letter s.                         *)
C4_AcceptedIsInvolution ==
    (last.op \in SetterOps /\ last.raised = NoError)
        => \A s \in Alphabet :
              plugboards[last.obj].front[plugboards[last.obj].front[s]] = s

(* C5: a call of a plugboard on a letter returns the same letter whatever   *)
(* the reverse flag is.                                                     *)
C5_ReverseFlagIrrelevant ==
    (last.op = "call" /\ last.arg \in Alphabet)
        => \A r \in ReverseValues :
              Plugboard_call(plugboards[last.obj], last.arg, r) = last.out

(* C6: a call of the machine on a value outside the alphabet raises         *)
(* InputError.                                                              *)
C6_NonAlphabetRejected ==
    (last.op = "encrypt" /\ last.arg \notin Alphabet)
        => last.raised = "InputError"

(* C7: a rejected assignment to `front` leaves front and back as they were, *)
(* and the plugboard answers every call as before.                          *)
C7_RejectedAssignmentChangesNothing ==
    [][(last'.op = "front" /\ last'.raised # NoError)
          => /\ plugboards' = plugboards
             /\ \A c \in CallValues, r \in ReverseValues :
                   Plugboard_call(plugboards'[last'.obj], c, r)
                       = Plugboard_call(plugboards[last'.obj], c, r)]_vars

(* A dictionary was rejected on a plugboard that holds a mapping other than *)
(* the default.                                                             *)
C7_Witness ==
    /\ last.op = "front"
    /\ last.arg = "dict"
    /\ last.raised = "ValueError"
    /\ plugboards[last.obj].front # plugboards["std"].front

(* C9: after construction and any assignments to `front`, front is a        *)
(* bijection over the alphabet and back is its inverse.                     *)
C9_FrontBackInverse ==
    \A o \in Objs :
        plugboards[o].alive =>
            /\ DOMAIN plugboards[o].front = Alphabet
            /\ DOMAIN plugboards[o].back = Alphabet
            /\ \A s \in Alphabet :
                  /\ plugboards[o].front[s] \in Alphabet
                  /\ plugboards[o].back[s] \in Alphabet
                  /\ plugboards[o].back[plugboards[o].front[s]] = s
                  /\ plugboards[o].front[plugboards[o].back[s]] = s

(* A rejected assignment that followed an accepted one. *)
C9_Witness ==
    /\ last.op = "front"
    /\ last.raised = "TypeError"
    /\ \E s \in Alphabet :
          plugboards[last.obj].front[plugboards[last.obj].front[s]] # s

(***************************************************************************)
(* Machine-level properties.                                                *)
(***************************************************************************)
(* Same order, and layer by layer the same mapping. *)
SameConfiguration(m1, m2) ==
    /\ machines[m1].order = machines[m2].order
    /\ Len(machines[m1].layers) = Len(machines[m2].layers)
    /\ \A i \in 1..Len(machines[m1].layers) :
          plugboards[machines[m1].layers[i]].front
              = plugboards[machines[m2].layers[i]].front

(* C1: when machine M1 has encrypted a letter s, an identically configured  *)
(* machine M2 turns M1's output back into s.                                *)
C1_Reciprocity ==
    (last.op = "encrypt" /\ last.arg \in Alphabet)
        => \A m2 \in Machines \ {last.obj} :
              (machines[m2].alive /\ SameConfiguration(last.obj, m2))
                  => Enigma_call(machines[m2], plugboards, last.out) = last.arg

(* C8: every keypress advances the machine: the rightmost rotor's position  *)
(* is part of the machine's state and changes by one on each call, so the   *)
(* state the machine encrypts with differs after every call.                *)
C8_KeypressAdvancesMachine ==
    [][last'.op = "encrypt"
          => <<machines, plugboards>>' # <<machines, plugboards>>]_vars

(* C10: an assignment to `front` on a layer of machine a leaves the output  *)
(* of every other machine b unchanged for every letter.                     *)
C10_MachinesShareNoLayerState ==
    [][\A a \in Machines, b \in Machines :
          (/\ a # b
           /\ machines[a].alive
           /\ machines[b].alive
           /\ last'.op = "front"
           /\ last'.obj \in Range(machines[a].layers))
              => \A c \in Alphabet :
                    Enigma_call(machines'[b], plugboards', c)
                        = Enigma_call(machines[b], plugboards, c)]_vars

====
